---- MODULE Spec2Model ----
(***************************************************************************)
(* The coffee-shop drinks API: five routes over one table of drinks, four  *)
(* of them behind requires_auth, with the 422 / 404 / AuthError handlers.  *)
(* One action per route; an action is the whole request: decorator,        *)
(* handler body, abort and the error handler that renders the response.    *)
(***************************************************************************)
EXTENDS Integers, Sequences, FiniteSets, TLC

\* Ids the drinks table can hand out: 1..MaxId.
MaxId == 2

VARIABLES
    drinks,     \* the drinks table: id -> [title, recipe], recipe as stored text
    request,    \* the request handled last
    response,   \* the response it got
    previous    \* the exchange before that one (route, id, status), when tracked

vars == <<drinks, request, response, previous>>

Ids == 1..MaxId

(***************************************************************************)
(* JSON values of request bodies.                                          *)
(***************************************************************************)
None == [type |-> "null"]
JString(s) == [type |-> "string", value |-> s]
JArray(items) == [type |-> "array", items |-> items]
JObject(items) == [type |-> "object", items |-> items]

\* Python truthiness of a decoded JSON value: None, "", [] and {} are falsy.
Truthy(v) ==
    CASE v.type = "null" -> FALSE
      [] v.type = "string" -> v.value # ""
      [] v.type = "array" -> v.items # <<>>
      [] v.type = "object" -> v.items # <<>>

Ingredient(color, parts) == <<"color", color, "parts", parts>>

TitleValues == {JString(""), JString("Latte"), JString("Mocha")}
RecipeValues ==
    { JArray(<<>>),
      JArray(<<Ingredient("white", "1")>>),
      JObject(Ingredient("white", "1")) }

\* A request body as request.get_json() returns it: None (no JSON body, or the
\* JSON null), a JSON array, or a JSON object with the keys it carries.
Body(keys) == [type |-> "object", items |-> keys]
ObjectBodies ==
    { Body(k) : k \in
        {<<>>}
        \cup { <<<<"title", t>>>> : t \in TitleValues }
        \cup { <<<<"recipe", r>>>> : r \in RecipeValues }
        \cup { <<<<"title", t>>, <<"recipe", r>>>> : t \in TitleValues, r \in RecipeValues } }
Bodies == {None, JArray(<<>>), JArray(<<JString("x")>>)} \cup ObjectBodies

\* dict.get(key, None)
RECURSIVE Lookup(_, _)
Lookup(items, key) ==
    IF items = <<>> THEN None
    ELSE IF Head(items)[1] = key THEN Head(items)[2]
    ELSE Lookup(Tail(items), key)

body_get(body, key) == Lookup(body.items, key)

(***************************************************************************)
(* json.dumps / json.loads on recipes: text is a sequence of tokens.       *)
(***************************************************************************)
RECURSIVE DumpItems(_)
DumpItems(items) ==
    IF items = <<>> THEN <<>>
    ELSE <<"{">> \o Head(items) \o <<"}">> \o DumpItems(Tail(items))

json_dumps(v) ==
    IF v.type = "array" THEN <<"[">> \o DumpItems(v.items) \o <<"]">>
    ELSE <<"{">> \o v.items \o <<"}">>

RECURSIVE LoadItems(_)
LoadItems(text) ==
    IF text = <<>> \/ Head(text) # "{" THEN <<>>
    ELSE <<SubSeq(text, 2, 5)>> \o LoadItems(SubSeq(text, 7, Len(text)))

json_loads(text) ==
    IF Head(text) = "[" THEN JArray(LoadItems(Tail(text)))
    ELSE JObject(SubSeq(text, 2, Len(text) - 1))

(***************************************************************************)
(* Bearer tokens and requires_auth (auth/auth.py).                         *)
(***************************************************************************)
Permissions == {"get:drinks-detail", "post:drinks", "patch:drinks", "delete:drinks"}

\* What a request presents: no Authorization header, a malformed one, or a
\* bearer token that is expired, fails the audience/issuer check, or verifies
\* to claims with or without a permissions field.
Unverified(state) == [state |-> state, has_permissions |-> FALSE, permissions |-> {}]
Verified(perms) == [state |-> "verified", has_permissions |-> TRUE, permissions |-> perms]
Tokens ==
    { Unverified("no_header"), Unverified("malformed"), Unverified("expired"),
      Unverified("invalid_claims"), Unverified("verified"),
      Verified({}), Verified({"get:drinks-detail"}), Verified(Permissions) }

AuthError(code, description, status_code) ==
    [error |-> [type |-> "object", code |-> code, description |-> description],
     status_code |-> status_code]

Passed(payload) == [ok |-> TRUE, payload |-> payload]
Failed(e) == [ok |-> FALSE, error |-> e]

\* get_token_auth_header and verify_decode_jwt: the claims, or the classified failure.
verify_decode_jwt(token) ==
    CASE token.state = "no_header" ->
            Failed(AuthError("authorization_header_missing", "header missing", 401))
      [] token.state = "malformed" ->
            Failed(AuthError("invalid_header", "malformed header", 401))
      [] token.state = "expired" ->
            Failed(AuthError("token_expired", "token expired", 401))
      [] token.state = "invalid_claims" ->
            Failed(AuthError("invalid_claims", "check audience and issuer", 401))
      [] OTHER -> Passed(token)

check_permissions(permission, payload) ==
    IF ~payload.has_permissions
    THEN Failed(AuthError("invalid_claims", "permissions missing", 400))
    ELSE IF permission \notin payload.permissions
    THEN Failed(AuthError("unauthorized", "permission not found", 403))
    ELSE Passed(payload)

requires_auth(permission, token) ==
    LET v == verify_decode_jwt(token)
    IN  IF v.ok THEN check_permissions(permission, v.payload) ELSE v

(***************************************************************************)
(* The drinks table and the Drink model (database/models.py).              *)
(***************************************************************************)
NoDrinks == [i \in {} |-> 0]

Row(title, recipe) == [title |-> title, recipe |-> recipe]

\* Drink.query.all(): the ids in the table, in id order.
RECURSIVE Ascending(_)
Ascending(S) ==
    IF S = {} THEN <<>>
    ELSE LET m == CHOOSE x \in S : \A y \in S : x <= y
         IN  <<m>> \o Ascending(S \ {m})

query_all(store) == Ascending(DOMAIN store)

Drink_short(store, id) == [id |-> id, title |-> store[id].title]

Drink_long(store, id) ==
    [id |-> id, title |-> store[id].title, recipe |-> json_loads(store[id].recipe)]

\* insert / update / delete commit the row. The handlers' except branches read
\* `raised`; no record is named on which the store raises, so it is FALSE.
Committed(store) == [raised |-> FALSE, store |-> store]

Drink_insert(store, id, row) ==
    Committed([i \in DOMAIN store \cup {id} |-> IF i = id THEN row ELSE store[i]])

Drink_update(store, id, row) ==
    Committed([i \in DOMAIN store |-> IF i = id THEN row ELSE store[i]])

Drink_delete(store, id) ==
    Committed([i \in DOMAIN store \ {id} |-> store[i]])

\* Ids the table can give the next inserted row; 0 when it has none left.
NextIds(store) == IF Ids \ DOMAIN store = {} THEN {0} ELSE Ids \ DOMAIN store

(***************************************************************************)
(* Responses, abort and the error handlers.                                *)
(***************************************************************************)
\* A message string, as its words.
Str(words) == [type |-> "string", words |-> words]

\* '{} cannot be blank'.format(name)
format_cannot_be_blank(name) == Str(<<name, "cannot", "be", "blank">>)

jsonify(body) == [status |-> 200, body |-> body]

\* abort(code, description={'message': message}) and the bare abort(code), whose
\* description is werkzeug's default string.
HTTPException(code, message) ==
    [code |-> code, description |-> [type |-> "dict", message |-> message]]
DefaultHTTPException(code) ==
    [code |-> code, description |-> [type |-> "string"]]

\* error.description['message']; indexing a string raises TypeError.
get_error_message(error, default_message) ==
    IF error.description.type = "dict" THEN error.description.message
    ELSE default_message

unprocessable(error) ==
    [status |-> 422,
     body |-> [success |-> FALSE, error |-> 422,
               message |-> get_error_message(error, Str(<<"unprocessable">>))]]

not_found(error) ==
    [status |-> 404,
     body |-> [success |-> FALSE, error |-> 404,
               message |-> get_error_message(error, Str(<<"resource", "not", "found">>))]]

auth_error(e) ==
    [status |-> 401,
     body |-> [success |-> FALSE, error |-> e.status_code, message |-> e.error]]

\* An exception no handler is registered for: the framework's own 500 page.
InternalServerError == [status |-> 500, body |-> [type |-> "html"]]

\* What a handler leaves behind: the response and the table.
Done(resp, store) == [response |-> resp, store |-> store]

abort(error, store) ==
    Done(IF error.code = 422 THEN unprocessable(error) ELSE not_found(error), store)

(***************************************************************************)
(* The handlers.                                                           *)
(***************************************************************************)
\* get_drinks seeding an empty table with a sample drink before listing it.
get_drinks_seeding(store) ==
    LET seeded == IF DOMAIN store = {}
                  THEN Drink_insert(store, 1, Row("Latte", json_dumps(JArray(<<>>)))).store
                  ELSE store
        drinks_query == query_all(seeded)
    IN  Done(jsonify([success |-> TRUE,
                      drinks |-> [i \in 1..Len(drinks_query) |->
                                    Drink_short(seeded, drinks_query[i])]]),
             seeded)

\* get_drinks listing drink.long() in place of drink.short().
get_drinks_long(store) ==
    LET drinks_query == query_all(store)
    IN  Done(jsonify([success |-> TRUE,
                      drinks |-> [i \in 1..Len(drinks_query) |->
                                    Drink_long(store, drinks_query[i])]]),
             store)

get_drinks(store) ==
    LET drinks_query == query_all(store)
    IN  Done(jsonify([success |-> TRUE,
                      drinks |-> [i \in 1..Len(drinks_query) |->
                                    Drink_short(store, drinks_query[i])]]),
             store)

get_drink_detail(payload, store) ==
    LET drinks_query == query_all(store)
    IN  Done(jsonify([success |-> TRUE,
                      drinks |-> [i \in 1..Len(drinks_query) |->
                                    Drink_long(store, drinks_query[i])]]),
             store)

\* create_drink answering with the new drink without drink.insert().
create_drink_not_inserted(payload, body, store, new_id) ==
    IF ~Truthy(body)
    THEN abort(HTTPException(422, Str(<<"invalid", "body", "JSON">>)), store)
    ELSE IF body.type # "object"
    THEN Done(InternalServerError, store)
    ELSE LET new_drink == body_get(body, "title")
             new_recipe == body_get(body, "recipe")
         IN  IF ~Truthy(new_drink)
             THEN abort(HTTPException(422, format_cannot_be_blank("drink")), store)
             ELSE IF ~Truthy(new_recipe)
             THEN abort(HTTPException(422, format_cannot_be_blank("recipe")), store)
             ELSE LET saved == Drink_insert(store, new_id,
                                   Row(new_drink.value, json_dumps(new_recipe)))
                  IN  Done(jsonify([success |-> TRUE,
                                    drinks |-> <<Drink_long(saved.store, new_id)>>]),
                           store)

\* create_drink testing "title is None" where the code tests "not title": an
\* empty title passes and is stored.
create_drink_empty_title_kept(payload, body, store, new_id) ==
    IF ~Truthy(body)
    THEN abort(HTTPException(422, Str(<<"invalid", "body", "JSON">>)), store)
    ELSE IF body.type # "object"
    THEN Done(InternalServerError, store)
    ELSE LET new_drink == body_get(body, "title")
             new_recipe == body_get(body, "recipe")
         IN  IF new_drink = None
             THEN abort(HTTPException(422, format_cannot_be_blank("drink")), store)
             ELSE IF ~Truthy(new_recipe)
             THEN abort(HTTPException(422, format_cannot_be_blank("recipe")), store)
             ELSE LET saved == Drink_insert(store, new_id,
                                   Row(new_drink.value, json_dumps(new_recipe)))
                  IN  Done(jsonify([success |-> TRUE,
                                    drinks |-> <<Drink_long(saved.store, new_id)>>]),
                           saved.store)

create_drink(payload, body, store, new_id) ==
    IF ~Truthy(body)
    THEN abort(HTTPException(422, Str(<<"invalid", "body", "JSON">>)), store)
    ELSE IF body.type # "object"
    THEN Done(InternalServerError, store)      \* body.get: AttributeError
    ELSE LET new_drink == body_get(body, "title")
             new_recipe == body_get(body, "recipe")
         IN  IF ~Truthy(new_drink)
             THEN abort(HTTPException(422, format_cannot_be_blank("drink")), store)
             ELSE IF ~Truthy(new_recipe)
             THEN abort(HTTPException(422, format_cannot_be_blank("recipe")), store)
             ELSE LET saved == Drink_insert(store, new_id,
                                   Row(new_drink.value, json_dumps(new_recipe)))
                  IN  IF saved.raised
                      THEN abort(HTTPException(404,
                                     Str(<<"failed", "to", "add", "a", "drink">>)), store)
                      ELSE Done(jsonify([success |-> TRUE,
                                         drinks |-> <<Drink_long(saved.store, new_id)>>]),
                                saved.store)

\* "if title is not None: ... if recipe is not None: ...": a supplied but empty
\* value overwrites the stored one.
assign_fields_if_present(drink, title, recipe) ==
    Row(IF title # None THEN title.value ELSE drink.title,
        IF recipe # None THEN json_dumps(recipe) ELSE drink.recipe)

\* title / recipe of the row after "if title: ... if recipe: ...".
assign_fields(drink, title, recipe) ==
    Row(IF Truthy(title) THEN title.value ELSE drink.title,
        IF Truthy(recipe) THEN json_dumps(recipe) ELSE drink.recipe)

\* update_drink looking the drink up before it checks the body.
update_drink_lookup_first(payload, drink_id, body, store) ==
    IF drink_id \notin DOMAIN store
    THEN abort(HTTPException(404, Str(<<"drinks", "not", "found">>)), store)
    ELSE IF ~Truthy(body)
    THEN abort(HTTPException(422, Str(<<"invalid", "body", "JSON">>)), store)
    ELSE IF body.type # "object"
    THEN Done(InternalServerError, store)
    ELSE LET title == body_get(body, "title")
             recipe == body_get(body, "recipe")
             saved == Drink_update(store, drink_id,
                          assign_fields(store[drink_id], title, recipe))
         IN  Done(jsonify([success |-> TRUE,
                           drinks |-> <<Drink_long(saved.store, drink_id)>>]),
                  saved.store)

update_drink(payload, drink_id, body, store) ==
    IF ~Truthy(body)
    THEN abort(HTTPException(422, Str(<<"invalid", "body", "JSON">>)), store)
    ELSE IF drink_id \notin DOMAIN store
    THEN abort(HTTPException(404, Str(<<"drinks", "not", "found">>)), store)
    ELSE IF body.type # "object"
    THEN Done(InternalServerError, store)      \* body.get: AttributeError
    ELSE LET title == body_get(body, "title")
             recipe == body_get(body, "recipe")
             saved == Drink_update(store, drink_id,
                          assign_fields(store[drink_id], title, recipe))
         IN  IF saved.raised
             THEN abort(DefaultHTTPException(422), store)
             ELSE Done(jsonify([success |-> TRUE,
                                drinks |-> <<Drink_long(saved.store, drink_id)>>]),
                       saved.store)

\* delete_drinks answering "deleted" without drink.delete().
delete_drinks_not_deleted(payload, drink_id, store) ==
    IF drink_id \notin DOMAIN store
    THEN abort(HTTPException(404, Str(<<"drinks", "not", "found">>)), store)
    ELSE Done(jsonify([success |-> TRUE, deleted |-> drink_id]), store)

delete_drinks(payload, drink_id, store) ==
    IF drink_id \notin DOMAIN store
    THEN abort(HTTPException(404, Str(<<"drinks", "not", "found">>)), store)
    ELSE LET saved == Drink_delete(store, drink_id)
         IN  IF saved.raised
             THEN abort(DefaultHTTPException(422), store)
             ELSE Done(jsonify([success |-> TRUE, deleted |-> drink_id]), saved.store)

(***************************************************************************)
(* The routes: each handler behind its decorator.                          *)
(***************************************************************************)
route_get_drinks(token, store) == get_drinks(store)

route_get_drink_detail(token, store) ==
    LET auth == requires_auth("get:drinks-detail", token)
    IN  IF auth.ok THEN get_drink_detail(auth.payload, store)
        ELSE Done(auth_error(auth.error), store)

\* POST /drinks without its @requires_auth decorator.
route_create_drink_undecorated(token, body, store, new_id) ==
    create_drink(token, body, store, new_id)

route_create_drink(token, body, store, new_id) ==
    LET auth == requires_auth("post:drinks", token)
    IN  IF auth.ok THEN create_drink(auth.payload, body, store, new_id)
        ELSE Done(auth_error(auth.error), store)

route_update_drink(token, drink_id, body, store) ==
    LET auth == requires_auth("patch:drinks", token)
    IN  IF auth.ok THEN update_drink(auth.payload, drink_id, body, store)
        ELSE Done(auth_error(auth.error), store)

route_delete_drinks(token, drink_id, store) ==
    LET auth == requires_auth("delete:drinks", token)
    IN  IF auth.ok THEN delete_drinks(auth.payload, drink_id, store)
        ELSE Done(auth_error(auth.error), store)

(***************************************************************************)
(* The state machine: one action per route.                                *)
(***************************************************************************)
Request(method, rule, token, drink_id, body) ==
    [method |-> method, rule |-> rule, token |-> token,
     drink_id |-> drink_id, body |-> body]

NoRequest == Request("", "", Unverified("no_header"), 0, None)
NoResponse == [status |-> 0, body |-> None]

Exchange(req, resp) ==
    [method |-> req.method, rule |-> req.rule, drink_id |-> req.drink_id,
     status |-> resp.status]

NoExchange == Exchange(NoRequest, NoResponse)

Init ==
    /\ drinks = NoDrinks
    /\ request = NoRequest
    /\ response = NoResponse
    /\ previous = NoExchange

Answer(req, result, track) ==
    /\ drinks' = result.store
    /\ request' = req
    /\ response' = result.response
    /\ previous' = IF track THEN Exchange(request, response) ELSE previous

GetDrinks(tokens, track) ==
    \E token \in tokens :
        Answer(Request("GET", "/drinks", token, 0, None),
               route_get_drinks(token, drinks), track)

GetDrinkDetail(tokens, track) ==
    \E token \in tokens :
        Answer(Request("GET", "/drinks-detail", token, 0, None),
               route_get_drink_detail(token, drinks), track)

CreateDrink(tokens, bodies, track) ==
    \E token \in tokens, body \in bodies :
        \E new_id \in NextIds(drinks) :
            LET result == route_create_drink(token, body, drinks, new_id)
            IN  /\ new_id = 0 => result.store = drinks
                /\ Answer(Request("POST", "/drinks", token, 0, body), result, track)

UpdateDrink(tokens, bodies, track) ==
    \E token \in tokens, body \in bodies, drink_id \in Ids :
        Answer(Request("PATCH", "/drinks/<id>", token, drink_id, body),
               route_update_drink(token, drink_id, body, drinks), track)

DeleteDrinks(tokens, track) ==
    \E token \in tokens, drink_id \in Ids :
        Answer(Request("DELETE", "/drinks/<id>", token, drink_id, None),
               route_delete_drinks(token, drink_id, drinks), track)

\* Requests of every token, over the bodies that create a drink, rename one
\* and fail validation.
FewBodies ==
    { None,
      Body(<<<<"title", JString("Latte")>>, <<"recipe", JObject(Ingredient("white", "1"))>>>>),
      Body(<<<<"title", JString("Mocha")>>>>) }

\* The same with an empty object, an empty title and a body that is no object.
SomeBodies ==
    FewBodies \cup
    { Body(<<>>),
      Body(<<<<"title", JString("")>>, <<"recipe", JArray(<<Ingredient("white", "1")>>)>>>>),
      JArray(<<JString("x")>>) }

Next ==
    \/ GetDrinks(Tokens, FALSE)
    \/ GetDrinkDetail(Tokens, FALSE)
    \/ CreateDrink(Tokens, SomeBodies, FALSE)
    \/ UpdateDrink(Tokens, SomeBodies, FALSE)
    \/ DeleteDrinks(Tokens, FALSE)

Spec == Init /\ [][Next]_vars

\* Requests of every body, without a token, with a barista's or with a manager's.
BodyTokens == {Unverified("no_header"), Verified({"get:drinks-detail"}), Verified(Permissions)}

NextBodies ==
    \/ GetDrinks(BodyTokens, FALSE)
    \/ GetDrinkDetail(BodyTokens, FALSE)
    \/ CreateDrink(BodyTokens, Bodies, FALSE)
    \/ UpdateDrink(BodyTokens, Bodies, FALSE)
    \/ DeleteDrinks(BodyTokens, FALSE)

SpecBodies == Init /\ [][NextBodies]_vars

\* The same machine remembering the exchange before the last one.
SeqTokens == {Unverified("no_header"), Verified({"get:drinks-detail"}), Verified(Permissions)}

NextSeq ==
    \/ GetDrinks(SeqTokens, TRUE)
    \/ GetDrinkDetail(SeqTokens, TRUE)
    \/ CreateDrink(SeqTokens, FewBodies, TRUE)
    \/ UpdateDrink(SeqTokens, FewBodies, TRUE)
    \/ DeleteDrinks(SeqTokens, TRUE)

SpecSeq == Init /\ [][NextSeq]_vars

(***************************************************************************)
(* Vocabulary of the properties.                                           *)
(***************************************************************************)
IsRoute(req, method, rule) == req.method = method /\ req.rule = rule

IsProtected(req) ==
    req.method \in {"GET", "POST", "PATCH", "DELETE"} /\ ~IsRoute(req, "GET", "/drinks")

RequiredPermission(req) ==
    CASE req.method = "GET" -> "get:drinks-detail"
      [] req.method = "POST" -> "post:drinks"
      [] req.method = "PATCH" -> "patch:drinks"
      [] OTHER -> "delete:drinks"

AuthOf(req) == requires_auth(RequiredPermission(req), req.token)
Authorized(req) == AuthOf(req).ok
Refused(req) == IsProtected(req) /\ ~Authorized(req)

\* body.get(key) of a request body; a body that is no JSON object has no keys.
FieldOf(body, key) == IF body.type = "object" THEN body_get(body, key) ELSE None

ContainsWord(message, word) ==
    /\ message.type = "string"
    /\ \E i \in 1..Len(message.words) : message.words[i] = word

IsErrorEnvelope(resp) ==
    /\ DOMAIN resp.body = {"success", "error", "message"}
    /\ resp.body.success = FALSE

IsShort(rep) == DOMAIN rep = {"id", "title"}
IsLong(rep) == DOMAIN rep = {"id", "title", "recipe"}

Others(store, id) == [i \in DOMAIN store \ {id} |-> store[i]]

(***************************************************************************)
(* C1: on a protected route, when token verification or the permission     *)
(* check fails, the handler body does not run: the drinks table is left as *)
(* it was and the response is the envelope of the classified auth error,   *)
(* whatever body or id the request carries.                                *)
(***************************************************************************)
C1_RefusedRequestRunsNoHandler ==
    [][ Refused(request') =>
            /\ drinks' = drinks
            /\ IsErrorEnvelope(response')
            /\ response'.body.error = AuthOf(request').error.status_code
            /\ response'.body.message = AuthOf(request').error.error ]_vars

\* A refused DELETE of a drink that exists, and a refused, well-formed POST.
C1_Witness ==
    /\ Refused(request)
    /\ \/ IsRoute(request, "DELETE", "/drinks/<id>") /\ request.drink_id \in DOMAIN drinks
       \/ /\ IsRoute(request, "POST", "/drinks")
          /\ Truthy(FieldOf(request.body, "title"))
          /\ Truthy(FieldOf(request.body, "recipe"))
    /\ response.body.success = FALSE

PatchOfMissingId(req, store) ==
    /\ IsRoute(req, "PATCH", "/drinks/<id>")
    /\ Authorized(req)
    /\ req.drink_id \notin DOMAIN store

WellFormedPost(req) ==
    /\ IsRoute(req, "POST", "/drinks")
    /\ Authorized(req)
    /\ Truthy(FieldOf(req.body, "title"))
    /\ Truthy(FieldOf(req.body, "recipe"))

C4_CreateAddsOneDrink ==
    [][ WellFormedPost(request') =>
            /\ response'.status = 200
            /\ response'.body.success = TRUE
            /\ Len(response'.body.drinks) = 1
            /\ IsLong(response'.body.drinks[1])
            /\ response'.body.drinks[1].title = FieldOf(request'.body, "title").value
            /\ Cardinality(DOMAIN drinks') = Cardinality(DOMAIN drinks) + 1
            /\ DOMAIN drinks \subseteq DOMAIN drinks'
            /\ \A i \in DOMAIN drinks : drinks'[i] = drinks[i]
            /\ response'.body.drinks[1].id \in DOMAIN drinks' \ DOMAIN drinks ]_vars

\* A drink created next to an existing one.
C4_Witness ==
    /\ WellFormedPost(request)
    /\ response.status = 200
    /\ Cardinality(DOMAIN drinks) >= 2
    /\ drinks[response.body.drinks[1].id].title = FieldOf(request.body, "title").value

(***************************************************************************)
(* C5: an authorized POST whose title is missing or empty is rejected with *)
(* 422 and a message containing "drink"; one whose recipe is missing or    *)
(* empty (an empty list included) is rejected with 422; no drink is        *)
(* created in either case.                                                 *)
(***************************************************************************)
AuthorizedPost(req) == IsRoute(req, "POST", "/drinks") /\ Authorized(req)

C5_BlankTitleNamesDrink ==
    [][ AuthorizedPost(request') =>
            /\ ~Truthy(FieldOf(request'.body, "title")) =>
                   /\ response'.status = 422
                   /\ ContainsWord(response'.body.message, "drink")
                   /\ drinks' = drinks
            /\ ~Truthy(FieldOf(request'.body, "recipe")) =>
                   /\ response'.status = 422
                   /\ drinks' = drinks ]_vars

\* C5 as amended: an empty or missing body is rejected with 422 "invalid
\* body JSON"; a non-empty JSON object whose title is missing or empty with
\* 422 "drink cannot be blank"; one with a title whose recipe is missing or
\* empty with 422 "recipe cannot be blank"; no drink is created in any of them.
C5_BlankFieldsRejected ==
    [][ ( /\ AuthorizedPost(request')
          /\ \/ ~Truthy(request'.body)
             \/ /\ request'.body.type = "object"
                /\ \/ ~Truthy(FieldOf(request'.body, "title"))
                   \/ ~Truthy(FieldOf(request'.body, "recipe")) )
        => /\ drinks' = drinks
           /\ response'.status = 422
           /\ IsErrorEnvelope(response')
           /\ response'.body.message =
                 IF ~Truthy(request'.body) THEN Str(<<"invalid", "body", "JSON">>)
                 ELSE IF ~Truthy(FieldOf(request'.body, "title"))
                 THEN Str(<<"drink", "cannot", "be", "blank">>)
                 ELSE Str(<<"recipe", "cannot", "be", "blank">>) ]_vars

\* An empty title with a recipe, rejected with a message naming "drink".
C5_Witness ==
    /\ AuthorizedPost(request)
    /\ FieldOf(request.body, "title") = JString("")
    /\ Truthy(FieldOf(request.body, "recipe"))
    /\ response.status = 422
    /\ ContainsWord(response.body.message, "drink")

(***************************************************************************)
(* C6: the HTTP status of the response to a refused request is the status  *)
(* code the classified failure carries: 403 for a verified token lacking   *)
(* the permission, 400 for claims without a permissions field, 401 for     *)
(* verification failures.                                                  *)
(***************************************************************************)
C6_StatusIsFailureStatus ==
    Refused(request) => response.status = AuthOf(request).error.status_code

(***************************************************************************)
(* C7: every error response (422, 404, auth errors) is the envelope        *)
(* {success: false, error, message} whose error is the integer HTTP status *)
(* of that response and whose message is a string.                         *)
(***************************************************************************)
C7_ErrorFieldIsHttpStatus ==
    (response.status \in {422, 404} \/ Refused(request)) =>
        /\ IsErrorEnvelope(response)
        /\ response.body.error = response.status
        /\ response.body.message.type = "string"

(***************************************************************************)
(* C8: GET /drinks is public: whatever the table holds and whatever token  *)
(* or header the request has, it answers 200 with success true and one     *)
(* short-form entry (id and title, never recipe) per stored drink.         *)
(***************************************************************************)
C8_PublicShortList ==
    IsRoute(request, "GET", "/drinks") =>
        /\ response.status = 200
        /\ response.body.success = TRUE
        /\ Len(response.body.drinks) = Cardinality(DOMAIN drinks)
        /\ \A i \in 1..Len(response.body.drinks) : IsShort(response.body.drinks[i])
        /\ \A id \in DOMAIN drinks :
               \E i \in 1..Len(response.body.drinks) :
                   response.body.drinks[i] = [id |-> id, title |-> drinks[id].title]

\* The list of two drinks served to a request that has no token.
C8_Witness ==
    /\ IsRoute(request, "GET", "/drinks")
    /\ ~Authorized(request)
    /\ response.status = 200
    /\ Len(response.body.drinks) >= 2

(***************************************************************************)
(* C9: GET /drinks and GET /drinks-detail never modify the table, and two  *)
(* GET /drinks requests in succession return identical drink lists.        *)
(***************************************************************************)
C9_ReadsLeaveTableAlone ==
    [][ /\ request'.method = "GET" => drinks' = drinks
        /\ (IsRoute(request, "GET", "/drinks") /\ IsRoute(request', "GET", "/drinks"))
              => response'.body.drinks = response.body.drinks ]_vars

\* The second of two GET /drinks in a row, over a table that holds drinks.
C9_Witness ==
    /\ IsRoute(request, "GET", "/drinks")
    /\ IsRoute(previous, "GET", "/drinks")
    /\ previous.status = 200
    /\ response.body.drinks # <<>>

(***************************************************************************)
(* C10: a successful PATCH changes only the fields supplied with a         *)
(* non-empty value: an absent or empty title or recipe leaves the stored   *)
(* value as it was, the drink keeps its id, no other drink changes.        *)
(***************************************************************************)
C10_PatchChangesOnlySuppliedFields ==
    [][ (IsRoute(request', "PATCH", "/drinks/<id>") /\ response'.status = 200) =>
            LET id == request'.drink_id
                title == FieldOf(request'.body, "title")
                recipe == FieldOf(request'.body, "recipe")
            IN  /\ DOMAIN drinks' = DOMAIN drinks
                /\ id \in DOMAIN drinks
                /\ \A j \in DOMAIN drinks \ {id} : drinks'[j] = drinks[j]
                /\ drinks'[id].title =
                      IF Truthy(title) THEN title.value ELSE drinks[id].title
                /\ IF Truthy(recipe)
                   THEN json_loads(drinks'[id].recipe) = recipe
                   ELSE drinks'[id].recipe = drinks[id].recipe
                /\ response'.body.drinks[1].id = id ]_vars

\* A PATCH that renamed one of two drinks while its body carried an empty recipe.
C10_Witness ==
    /\ IsRoute(request, "PATCH", "/drinks/<id>")
    /\ response.status = 200
    /\ Truthy(FieldOf(request.body, "title"))
    /\ FieldOf(request.body, "recipe") = JArray(<<>>)
    /\ Cardinality(DOMAIN drinks) >= 2
    /\ \E j \in DOMAIN drinks : drinks[j].title # drinks[request.drink_id].title

====
